---- MODULE Spec2Model ----
(***************************************************************************)
(* Concurrent memoized Fibonacci (src/C++junk.cpp).                        *)
(*                                                                         *)
(*   fibonacci_cpp(n)                     the memoized recursive solver    *)
(*   calculateConcurrentFibonacci_cpp     the batch driver                 *)
(*                                                                         *)
(* Every std::async(std::launch::async, ...) call is a task of its own.    *)
(* A task is named by the index of the top-level task it descends from and *)
(* the path of sub-calls (1 for fut1, 2 for fut2) that leads to it, so the *)
(* name does not depend on the interleaving.                               *)
(*                                                                         *)
(* Reading of the source.  Line 22 declares `lock` as a std::lock_guard    *)
(* and line 30 calls lock.unlock(), which only std::unique_lock offers;    *)
(* line 45 writes lock_guard without std::.  The model takes the source at *)
(* its word: line 30 releases cache_mutex (as the comment on lines 27-29   *)
(* says), the destructor of `lock` releases it only when it is still       *)
(* owned (the cache-hit return), and line 45 is a std::lock_guard.         *)
(***************************************************************************)
EXTENDS Integers, Sequences, FiniteSets, TLC

VARIABLES
    fib_cache,    \* line 11: std::unordered_map<int, long long>
    cache_mutex,  \* line 12: the task that owns the mutex, or NoTask
    tasks,        \* the std::async tasks: task name -> [n, pc, val]
    maxN,         \* the driver's maxN
    batch,        \* index -> the argument line 59 passes to fibonacci_cpp
    i,            \* the driver's loop variable of line 56
    results,      \* line 62: std::vector<long long> results
    dpc,          \* the driver's position: "launch", "collect", "report",
                  \* "done"; "aborted" when the process was ended
    sched,        \* how the OS schedules the threads: "free" or "serial"
    numThreads    \* the driver's numThreads (line 50), printed on line 52

vars == <<fib_cache, cache_mutex, tasks, maxN, batch, i, results, dpc, sched, numThreads>>

----------------------------------------------------------------------------
(* Bounds of the model. *)

\* The largest maxN run under free scheduling (every interleaving).
MaxN == 3

\* The largest maxN run under the serial schedule (one interleaving).
MaxSerialN == 94

----------------------------------------------------------------------------
(* long long: 64 bits, two's complement, as four 16-bit limbs, least       *)
(* significant first.                                                      *)

Base == 65536

LLLimbs == 4

RECURSIVE AddLimbs(_, _, _, _)
\* Limb-wise a + b from limb k on, with carry c; the carry out of the last
\* limb is dropped.
AddLimbs(a, b, k, c) ==
    IF k > Len(a) THEN <<>>
    ELSE LET s == a[k] + b[k] + c
         IN  <<s % Base>> \o AddLimbs(a, b, k + 1, s \div Base)

\* The long long of a small non-negative number.
LL(x) == [k \in 1..LLLimbs |-> IF k = 1 THEN x ELSE 0]

\* -1 as a long long (line 70).
LLMinusOne == [k \in 1..LLLimbs |-> Base - 1]

\* The sign bit.
LLNegative(a) == a[LLLimbs] >= Base \div 2

\* (mutant of LLAddWrap: line 42 written as fut1.get() + fut1.get())
LLAddFirstTwice(a, b) == AddLimbs(a, a, 1, 0)

\* a + b modulo 2^64.
LLAddWrap(a, b) == AddLimbs(a, b, 1, 0)

\* Signed overflow of a + b: undefined behaviour in C++.
LLAddOverflows(a, b) ==
    /\ LLNegative(a) = LLNegative(b)
    /\ LLNegative(LLAddWrap(a, b)) # LLNegative(a)

\* What `fut1.get() + fut2.get()` (line 42) can produce.  Without overflow,
\* the sum.  With signed overflow the behaviour is undefined: the builds
\* either wrap around (the usual code generation) or trap (-ftrapv, a
\* sanitizer), which ends the process.
LLAddOutcomes(a, b) ==
    IF LLAddOverflows(a, b)
    THEN {[trap |-> FALSE, val |-> LLAddWrap(a, b)], [trap |-> TRUE, val |-> a]}
    ELSE {[trap |-> FALSE, val |-> LLAddWrap(a, b)]}

----------------------------------------------------------------------------
(* The mathematical Fibonacci numbers, as naturals of five limbs (80 bits: *)
(* enough for every index up to 115).                                      *)

RefLimbs == LLLimbs + 1

RefNat(x) == [k \in 1..RefLimbs |-> IF k = 1 THEN x ELSE 0]

RECURSIVE FibRun(_, _, _)
\* The k >= 1 terms x1 = a, x2 = b, x3 = a + b, x4 = b + x3, ...: the first
\* half, then the second half from the two terms that follow it.
FibRun(a, b, k) ==
    IF k = 1 THEN <<a>>
    ELSE IF k = 2 THEN <<a, b>>
    ELSE IF k = 3 THEN <<a, b, AddLimbs(a, b, 1, 0)>>
    ELSE LET h == k \div 2
             first == FibRun(a, b, h)
             x == AddLimbs(first[h - 1], first[h], 1, 0)
             y == AddLimbs(first[h], x, 1, 0)
         IN  first \o FibRun(x, y, k - h)

\* <<F(0), F(1), ..., F(n)>>
FibSeq(n) == FibRun(RefNat(0), RefNat(1), n + 1)

MaxRef == MaxSerialN + 2

FibSeqMaxRef == FibSeq(MaxRef)

\* F(n), for n in 0..MaxRef.
Fib(n) == FibSeqMaxRef[n + 1]

\* F(n) is a long long: it is below 2^63.
Fits(n) == Fib(n)[RefLimbs] = 0 /\ Fib(n)[LLLimbs] < Base \div 2

\* The last index whose Fibonacci number is a long long (92).
LastExact == CHOOSE n \in 0..(MaxRef - 1) : Fits(n) /\ ~Fits(n + 1)

\* The long long v is the Fibonacci number F(n).
IsFib(v, n) ==
    /\ v \in Seq(Nat)
    /\ ~LLNegative(v)
    /\ n \in 0..MaxRef
    /\ Fib(n) = v \o <<0>>

----------------------------------------------------------------------------
(* Tasks. *)

NoTask == <<>>

\* The name of the top-level task of index k, and of the sub-tasks of t.
Top(k) == <<k, <<>>>>
Child(t, c) == <<t[1], Append(t[2], c)>>

\* A task that has just been created by std::async (lines 39, 40, 59).
NewTask(n) == [n |-> n, pc |-> "entry", val |-> LL(0)]

Exists(t) == t \in DOMAIN tasks

\* The positions of a task that has left fibonacci_cpp: by the return
\* statement of line 18, 19, 24 or 47, or by an exception (the throw of line
\* 16, an exception rethrown by get() on line 42).
Returned == {"return18", "return19", "return24", "return47"}
Thrown == {"throw16", "throw42"}

\* The task's future is ready: it returned a value or threw.
Finished(t) == Exists(t) /\ tasks[t].pc \in Returned \cup Thrown

\* The process was ended by a trapping overflow.
Aborted == dpc = "aborted"

\* The driver's future for index k is ready.
FutureReady(k) == Finished(Top(k))

\* The driver has a step to take.
DriverCanStep ==
    \/ dpc \in {"launch", "report"}
    \/ dpc = "collect" /\ (Len(results) > maxN \/ FutureReady(Len(results)))

\* The task t has a step to take.
CanStep(t) ==
    LET pc == tasks[t].pc
    IN  CASE pc \in Returned \cup Thrown \cup {"trapped"} -> FALSE
          [] pc \in {"lock", "lock2"} -> cache_mutex = NoTask
          [] pc = "await" -> Finished(Child(t, 1)) /\ Finished(Child(t, 2))
          [] OTHER -> TRUE

\* std::launch::async gives every task a thread and leaves the interleaving
\* to the operating system.  "free" is every interleaving.  "serial" is the
\* interleaving of one core without preemption: the driver runs until it
\* blocks in fut.get(), then the task it waits for runs, its sub-tasks
\* first.  A trapped overflow ends the process: nothing runs.
Awaited == {t \in DOMAIN tasks : t[1] = Len(results)}

\* The tasks the scheduler may run next.
Turn ==
    IF Aborted THEN {}
    ELSE IF sched = "free" THEN DOMAIN tasks
    ELSE IF DriverCanStep THEN {}
    ELSE LET own == {t \in Awaited : CanStep(t)}
         IN  {t \in own : \A u \in own : Len(u[2]) <= Len(t[2])}

\* The scheduler may run the driver next.
DriverTurn == ~Aborted

SetTask(t, pc, val) ==
    tasks' = [tasks EXCEPT ![t] = [n |-> tasks[t].n, pc |-> pc, val |-> val]]

Goto(t, pc) == SetTask(t, pc, tasks[t].val)

\* The tasks when t leaves the function past line 40: fut1 and fut2 go out
\* of scope, and with them the (finished) sub-tasks of t.
Leave(t, pc, val) ==
    [u \in DOMAIN tasks \ {Child(t, 1), Child(t, 2)} |->
        IF u = t THEN [n |-> tasks[t].n, pc |-> pc, val |-> val] ELSE tasks[u]]

----------------------------------------------------------------------------
(* fibonacci_cpp, lines 14-48. *)

\* (mutant of Entry: lines 15-17 missing)
EntryUnchecked(t) ==
    /\ tasks[t].pc = "entry"
    /\ IF tasks[t].n = 0 THEN SetTask(t, "return18", LL(0))
       ELSE IF tasks[t].n = 1 THEN SetTask(t, "return19", LL(1))
       ELSE Goto(t, "lock")
    /\ UNCHANGED <<fib_cache, cache_mutex, maxN, batch, i, results, dpc, sched, numThreads>>

\* (mutant of Entry: lines 18-19 missing, the base cases go to the cache)
EntryNoBase(t) ==
    /\ tasks[t].pc = "entry"
    /\ IF tasks[t].n < 0 THEN Goto(t, "throw16") ELSE Goto(t, "lock")
    /\ UNCHANGED <<fib_cache, cache_mutex, maxN, batch, i, results, dpc, sched, numThreads>>

\* Lines 15-19: the argument check and the base cases.
Entry(t) ==
    /\ tasks[t].pc = "entry"
    /\ IF tasks[t].n < 0 THEN Goto(t, "throw16")
       ELSE IF tasks[t].n = 0 THEN SetTask(t, "return18", LL(0))
       ELSE IF tasks[t].n = 1 THEN SetTask(t, "return19", LL(1))
       ELSE Goto(t, "lock")
    /\ UNCHANGED <<fib_cache, cache_mutex, maxN, batch, i, results, dpc, sched, numThreads>>

\* (mutant of Lock: line 22 locks a mutex of its own, so it never waits)
LockNoWait(t) ==
    /\ tasks[t].pc = "lock"
    /\ cache_mutex' = t
    /\ Goto(t, "check")
    /\ UNCHANGED <<fib_cache, maxN, batch, i, results, dpc, sched, numThreads>>

\* Line 22: lock(cache_mutex).
Lock(t) ==
    /\ tasks[t].pc = "lock"
    /\ cache_mutex = NoTask
    /\ cache_mutex' = t
    /\ Goto(t, "check")
    /\ UNCHANGED <<fib_cache, maxN, batch, i, results, dpc, sched, numThreads>>

\* (mutant of CacheHit: the return of line 24 missing, a hit goes on to
\* recompute)
CacheHitFallsThrough(t) ==
    /\ tasks[t].pc = "check"
    /\ tasks[t].n \in DOMAIN fib_cache
    /\ Goto(t, "sleep")
    /\ cache_mutex' = NoTask
    /\ UNCHANGED <<fib_cache, maxN, batch, i, results, dpc, sched, numThreads>>

\* (mutant of CacheHit: the return of line 24 leaves the mutex locked)
CacheHitKeepLock(t) ==
    /\ tasks[t].pc = "check"
    /\ tasks[t].n \in DOMAIN fib_cache
    /\ SetTask(t, "return24", fib_cache[tasks[t].n])
    /\ UNCHANGED <<fib_cache, cache_mutex, maxN, batch, i, results, dpc, sched, numThreads>>

\* Lines 23-25: the entry is in the cache; return it, which releases the
\* lock as `lock` goes out of scope.
CacheHit(t) ==
    /\ tasks[t].pc = "check"
    /\ tasks[t].n \in DOMAIN fib_cache
    /\ SetTask(t, "return24", fib_cache[tasks[t].n])
    /\ cache_mutex' = NoTask
    /\ UNCHANGED <<fib_cache, maxN, batch, i, results, dpc, sched, numThreads>>

\* (mutant of CacheMiss: line 30 missing, the lock is kept)
CacheMissKeepLock(t) ==
    /\ tasks[t].pc = "check"
    /\ tasks[t].n \notin DOMAIN fib_cache
    /\ Goto(t, "sleep")
    /\ UNCHANGED <<fib_cache, cache_mutex, maxN, batch, i, results, dpc, sched, numThreads>>

\* (mutant of CacheMiss: line 23 written with fib_cache[n], which inserts
\* the key it does not find, with the value 0)
CacheMissInserts(t) ==
    /\ tasks[t].pc = "check"
    /\ tasks[t].n \notin DOMAIN fib_cache
    /\ fib_cache' = [k \in DOMAIN fib_cache \cup {tasks[t].n} |->
                        IF k = tasks[t].n THEN LL(0) ELSE fib_cache[k]]
    /\ Goto(t, "sleep")
    /\ cache_mutex' = NoTask
    /\ UNCHANGED <<maxN, batch, i, results, dpc, sched, numThreads>>

\* Lines 23 and 30: the entry is not in the cache; lock.unlock().
CacheMiss(t) ==
    /\ tasks[t].pc = "check"
    /\ tasks[t].n \notin DOMAIN fib_cache
    /\ Goto(t, "sleep")
    /\ cache_mutex' = NoTask
    /\ UNCHANGED <<fib_cache, maxN, batch, i, results, dpc, sched, numThreads>>

\* Line 33: sleep_for(1 ms).
Sleep(t) ==
    /\ tasks[t].pc = "sleep"
    /\ Goto(t, "spawn")
    /\ UNCHANGED <<fib_cache, cache_mutex, maxN, batch, i, results, dpc, sched, numThreads>>

\* (mutant of Spawn: line 45 moved before line 42, the lock is taken
\* before the results are awaited)
SpawnLockEarly(t) ==
    /\ tasks[t].pc = "spawn"
    /\ cache_mutex = NoTask
    /\ cache_mutex' = t
    /\ tasks' = [u \in DOMAIN tasks \cup {Child(t, 1), Child(t, 2)} |->
                    IF u = Child(t, 1) THEN NewTask(tasks[t].n - 1)
                    ELSE IF u = Child(t, 2) THEN NewTask(tasks[t].n - 2)
                    ELSE IF u = t THEN [tasks[t] EXCEPT !.pc = "await"]
                    ELSE tasks[u]]
    /\ UNCHANGED <<fib_cache, maxN, batch, i, results, dpc, sched, numThreads>>

\* (mutant of Spawn: line 40 passes n - 1, as line 39 does)
SpawnSameArg(t) ==
    /\ tasks[t].pc = "spawn"
    /\ tasks' = [u \in DOMAIN tasks \cup {Child(t, 1), Child(t, 2)} |->
                    IF u = Child(t, 1) THEN NewTask(tasks[t].n - 1)
                    ELSE IF u = Child(t, 2) THEN NewTask(tasks[t].n - 1)
                    ELSE IF u = t THEN [tasks[t] EXCEPT !.pc = "await"]
                    ELSE tasks[u]]
    /\ UNCHANGED <<fib_cache, cache_mutex, maxN, batch, i, results, dpc, sched, numThreads>>

\* Lines 39-40: fut1 = std::async(fibonacci_cpp, n - 1) and
\* fut2 = std::async(fibonacci_cpp, n - 2).  The two launches touch nothing
\* that another task reads, and a sub-task acts only through its own steps,
\* so the two statements are one step of the caller.
Spawn(t) ==
    /\ tasks[t].pc = "spawn"
    /\ tasks' = [u \in DOMAIN tasks \cup {Child(t, 1), Child(t, 2)} |->
                    IF u = Child(t, 1) THEN NewTask(tasks[t].n - 1)
                    ELSE IF u = Child(t, 2) THEN NewTask(tasks[t].n - 2)
                    ELSE IF u = t THEN [tasks[t] EXCEPT !.pc = "await"]
                    ELSE tasks[u]]
    /\ UNCHANGED <<fib_cache, cache_mutex, maxN, batch, i, results, dpc, sched, numThreads>>

\* (mutant of Await: line 42 written as result = fut1.get(), the second
\* sub-task is neither awaited nor added)
AwaitFirstOnly(t) ==
    /\ tasks[t].pc = "await"
    /\ Finished(Child(t, 1))
    /\ IF tasks[Child(t, 1)].pc \in Thrown
       THEN tasks' = Leave(t, "throw42", tasks[t].val)
       ELSE SetTask(t, "lock2", tasks[Child(t, 1)].val)
    /\ UNCHANGED <<fib_cache, cache_mutex, maxN, batch, i, results, dpc, sched, numThreads>>

\* Line 42: result = fut1.get() + fut2.get().  The two get() calls are
\* unsequenced, and both futures block until their task has finished (the
\* one whose get() is skipped by an exception blocks in its destructor), so
\* the statement completes when both sub-tasks have finished.  An exception
\* of a sub-task is rethrown by get() and leaves the function, which
\* destroys fut1 and fut2.
Await(t) ==
    /\ tasks[t].pc = "await"
    /\ Finished(Child(t, 1)) /\ Finished(Child(t, 2))
    /\ IF tasks[Child(t, 1)].pc \in Thrown \/ tasks[Child(t, 2)].pc \in Thrown
       THEN /\ tasks' = Leave(t, "throw42", tasks[t].val)
            /\ dpc' = dpc
       ELSE \E r \in LLAddOutcomes(tasks[Child(t, 1)].val, tasks[Child(t, 2)].val) :
               IF r.trap
               THEN Goto(t, "trapped") /\ dpc' = "aborted"
               ELSE SetTask(t, "lock2", r.val) /\ dpc' = dpc
    /\ UNCHANGED <<fib_cache, cache_mutex, maxN, batch, i, results, sched, numThreads>>

\* Line 45: store_lock(cache_mutex).
Lock2(t) ==
    /\ tasks[t].pc = "lock2"
    /\ cache_mutex = NoTask
    /\ cache_mutex' = t
    /\ Goto(t, "store")
    /\ UNCHANGED <<fib_cache, maxN, batch, i, results, dpc, sched, numThreads>>

\* (mutant of Store: line 46 written as fib_cache[n - 1] = result)
StoreWrongKey(t) ==
    /\ tasks[t].pc = "store"
    /\ fib_cache' = [k \in DOMAIN fib_cache \cup {tasks[t].n - 1} |->
                        IF k = tasks[t].n - 1 THEN tasks[t].val ELSE fib_cache[k]]
    /\ cache_mutex' = NoTask
    /\ tasks' = Leave(t, "return47", tasks[t].val)
    /\ UNCHANGED <<maxN, batch, i, results, dpc, sched, numThreads>>

\* (mutant of Store: the cache is cleared before line 46 stores)
StoreAfterClear(t) ==
    /\ tasks[t].pc = "store"
    /\ fib_cache' = [k \in {tasks[t].n} |-> tasks[t].val]
    /\ cache_mutex' = NoTask
    /\ tasks' = Leave(t, "return47", tasks[t].val)
    /\ UNCHANGED <<maxN, batch, i, results, dpc, sched, numThreads>>

\* (mutant of Store: line 46 missing, the result is returned but not cached)
StoreSkipped(t) ==
    /\ tasks[t].pc = "store"
    /\ cache_mutex' = NoTask
    /\ tasks' = Leave(t, "return47", tasks[t].val)
    /\ UNCHANGED <<fib_cache, maxN, batch, i, results, dpc, sched, numThreads>>

\* Lines 46-47: fib_cache[n] = result; return result, which releases the
\* lock as `store_lock` goes out of scope and destroys fut1 and fut2.
Store(t) ==
    /\ tasks[t].pc = "store"
    /\ fib_cache' = [k \in DOMAIN fib_cache \cup {tasks[t].n} |->
                        IF k = tasks[t].n THEN tasks[t].val ELSE fib_cache[k]]
    /\ cache_mutex' = NoTask
    /\ tasks' = Leave(t, "return47", tasks[t].val)
    /\ UNCHANGED <<maxN, batch, i, results, dpc, sched, numThreads>>

----------------------------------------------------------------------------
(* calculateConcurrentFibonacci_cpp, lines 50-78. *)

\* (mutant of Launch: line 59 passes i + 1)
LaunchOffByOne ==
    /\ dpc = "launch" /\ DriverTurn
    /\ IF i <= maxN
       THEN /\ tasks' = [u \in DOMAIN tasks \cup {Top(i)} |->
                            IF u = Top(i) THEN NewTask(batch[i] + 1) ELSE tasks[u]]
            /\ i' = i + 1
            /\ dpc' = dpc
       ELSE /\ dpc' = "collect"
            /\ UNCHANGED <<tasks, i>>
    /\ UNCHANGED <<fib_cache, cache_mutex, maxN, batch, results, sched, numThreads>>

\* (mutant of Launch: the loop of line 56 also stops at numThreads tasks)
LaunchCapped ==
    /\ dpc = "launch" /\ DriverTurn
    /\ IF i <= maxN /\ i < numThreads
       THEN /\ tasks' = [u \in DOMAIN tasks \cup {Top(i)} |->
                            IF u = Top(i) THEN NewTask(batch[i]) ELSE tasks[u]]
            /\ i' = i + 1
            /\ dpc' = dpc
       ELSE /\ dpc' = "collect"
            /\ UNCHANGED <<tasks, i>>
    /\ UNCHANGED <<fib_cache, cache_mutex, maxN, batch, results, sched, numThreads>>

\* Lines 56-60: futures.push_back(std::async(fibonacci_cpp, i)).
Launch ==
    /\ dpc = "launch" /\ DriverTurn
    /\ IF i <= maxN
       THEN /\ tasks' = [u \in DOMAIN tasks \cup {Top(i)} |->
                            IF u = Top(i) THEN NewTask(batch[i]) ELSE tasks[u]]
            /\ i' = i + 1
            /\ dpc' = dpc
       ELSE /\ dpc' = "collect"
            /\ UNCHANGED <<tasks, i>>
    /\ UNCHANGED <<fib_cache, cache_mutex, maxN, batch, results, sched, numThreads>>

\* (mutant of Collect: no try/catch around line 66, the exception leaves
\* the driver and, uncaught, ends the process)
CollectNoCatch ==
    /\ dpc = "collect" /\ DriverTurn
    /\ Len(results) <= maxN
    /\ FutureReady(Len(results))
    /\ IF tasks[Top(Len(results))].pc \in Thrown
       THEN dpc' = "aborted" /\ results' = results
       ELSE dpc' = dpc /\ results' = Append(results, tasks[Top(Len(results))].val)
    /\ UNCHANGED <<fib_cache, cache_mutex, tasks, maxN, batch, i, sched, numThreads>>

\* (mutant of Collect: the loop of line 64 takes the futures as they become
\* ready, not in the order of the vector)
CollectAnyReady ==
    /\ dpc = "collect" /\ DriverTurn
    /\ Len(results) <= maxN
    /\ \E k \in 0..maxN :
          /\ FutureReady(k)
          /\ results' = Append(results,
                               IF tasks[Top(k)].pc \in Thrown THEN LLMinusOne
                               ELSE tasks[Top(k)].val)
    /\ UNCHANGED <<fib_cache, cache_mutex, tasks, maxN, batch, i, dpc, sched, numThreads>>

\* Lines 64-72: results.push_back(fut.get()), or -1 when get() throws.  Each
\* iteration pushes one entry, so Len(results) is the index of the future
\* the loop is at.
Collect ==
    /\ dpc = "collect" /\ DriverTurn
    /\ Len(results) <= maxN
    /\ FutureReady(Len(results))
    /\ results' = Append(results,
                         IF tasks[Top(Len(results))].pc \in Thrown THEN LLMinusOne
                         ELSE tasks[Top(Len(results))].val)
    /\ UNCHANGED <<fib_cache, cache_mutex, tasks, maxN, batch, i, dpc, sched, numThreads>>

\* Line 64, past the last future: the loop ends.
Collected ==
    /\ dpc = "collect" /\ DriverTurn
    /\ Len(results) > maxN
    /\ dpc' = "report"
    /\ UNCHANGED <<fib_cache, cache_mutex, tasks, maxN, batch, i, results, sched, numThreads>>

\* Lines 74-77: the elapsed time and "C++ calculation complete."
Report ==
    /\ dpc = "report" /\ DriverTurn
    /\ dpc' = "done"
    /\ UNCHANGED <<fib_cache, cache_mutex, tasks, maxN, batch, i, results, sched, numThreads>>

----------------------------------------------------------------------------
(* The program. *)

EmptyCache == <<>>

\* The numThreads of the example call of line 80.
ExampleHint == 4

\* The state when the driver is entered with maxN = m and numThreads = h,
\* the cache c and the mutex free (line 12).
StartHint(m, h, b, s, c) ==
    /\ fib_cache = c
    /\ cache_mutex = NoTask
    /\ tasks = <<>>
    /\ maxN = m
    /\ numThreads = h
    /\ batch = b
    /\ i = 0
    /\ results = <<>>
    /\ dpc = "launch"
    /\ sched = s

Start(m, b, s, c) == StartHint(m, ExampleHint, b, s, c)

\* Line 59 passes the index itself.
Indices(m) == [k \in 0..m |-> k]

\* calculateConcurrentFibonacci_cpp(m, _) on the cache as constructed
\* (line 11).
Init ==
    \/ \E m \in 0..MaxN : Start(m, Indices(m), "free", EmptyCache)
    \/ \E m \in (MaxSerialN - 2)..MaxSerialN :
          Start(m, Indices(m), "serial", EmptyCache)

Next ==
    \/ \E t \in Turn : Entry(t)
    \/ \E t \in Turn : Lock(t)
    \/ \E t \in Turn : CacheHit(t)
    \/ \E t \in Turn : CacheMiss(t)
    \/ \E t \in Turn : Sleep(t)
    \/ \E t \in Turn : Spawn(t)
    \/ \E t \in Turn : Await(t)
    \/ \E t \in Turn : Lock2(t)
    \/ \E t \in Turn : Store(t)
    \/ Launch
    \/ Collect
    \/ Collected
    \/ Report

Spec == Init /\ [][Next]_vars

\* Every thread is an operating-system thread (std::launch::async): while
\* some thread can take a step, one of them does.
FairSpec == Spec /\ WF_vars(Next)

----------------------------------------------------------------------------
(* The driver with a negative index injected into its batch (the scenario  *)
(* of the try/catch of lines 65-71, which no index of line 56 exercises).   *)

NegativeInputs == {-1, -2}

\* The largest maxN of the runs with an injected index under free scheduling.
MaxInjectN == 2

Inject(b, k, v) == [b EXCEPT ![k] = v]

InitInject ==
    \/ \E m \in 0..MaxInjectN, k \in 0..MaxInjectN, v \in NegativeInputs :
          k <= m /\ Start(m, Inject(Indices(m), k, v), "free", EmptyCache)
    \/ \E m \in (MaxSerialN - 2)..MaxSerialN, v \in NegativeInputs :
          Start(m, Inject(Indices(m), 0, v), "serial", EmptyCache)

SpecInject == InitInject /\ [][Next]_vars

----------------------------------------------------------------------------
(* Concurrent calls of fibonacci_cpp by a client other than the driver of  *)
(* line 56: the driver's loop over any batch of arguments, on a cache that *)
(* an earlier run has left.                                                *)

\* The number of concurrent calls.
MaxCalls == 2

\* The largest argument of the concurrent calls on the empty cache.
MaxArg == 2

\* The cache after run(k, _): the keys 2..k, each with its Fibonacci number.
WarmCache(k) == [n \in 2..k |-> SubSeq(Fib(n), 1, LLLimbs)]

InitCalls ==
    \/ \E b \in [0..(MaxCalls - 1) -> 2..MaxArg] :
          Start(MaxCalls - 1, b, "free", EmptyCache)
    \/ \E k \in (LastExact - 1)..LastExact :
          \E b \in [0..(MaxCalls - 1) -> k..(k + 1)] :
             Start(MaxCalls - 1, b, "free", WarmCache(k))

SpecCalls == InitCalls /\ [][Next]_vars

----------------------------------------------------------------------------
(* The driver called with other values of numThreads than the example's.   *)

\* The values of numThreads.
Hints == {1, 2, ExampleHint}

\* The largest maxN of the runs with these values of numThreads.
MaxHintN == 2

InitHints ==
    \/ \E m \in 0..MaxHintN, h \in Hints :
          StartHint(m, h, Indices(m), "free", EmptyCache)
    \/ \E m \in (MaxSerialN - 2)..MaxSerialN, h \in Hints :
          StartHint(m, h, Indices(m), "serial", EmptyCache)

SpecHints == InitHints /\ [][Next]_vars

----------------------------------------------------------------------------
(* The claims. *)

\* C1, as stated: every call solve(n) with n >= 0 that returns, returns the
\* Fibonacci number F(n).
C1_EveryIndex ==
    \A t \in DOMAIN tasks :
        tasks[t].pc \in Returned /\ tasks[t].n >= 0
            => IsFib(tasks[t].val, tasks[t].n)

\* C1, as amended: every call solve(n) with 0 <= n <= 92 (the indices whose
\* Fibonacci number is a long long) that returns, returns F(n), under every
\* interleaving and from every cache the run has built.
C1_ReturnsFib ==
    \A t \in DOMAIN tasks :
        tasks[t].pc \in Returned /\ tasks[t].n >= 0 /\ tasks[t].n <= LastExact
            => IsFib(tasks[t].val, tasks[t].n)

\* A call for n >= 2 has returned while another call for the same n is
\* still waiting for its sub-tasks.
C1_Witness ==
    \E t, u \in DOMAIN tasks :
        /\ tasks[t].pc \in Returned /\ tasks[t].n >= 2
        /\ tasks[u].n = tasks[t].n /\ tasks[u].pc = "await"

\* C2, as stated: every key k of the cache maps to F(k).
C2_EveryKey ==
    \A k \in DOMAIN fib_cache : IsFib(fib_cache[k], k)

\* C2, as amended: every key k <= 92 of the cache maps to F(k), also when
\* several tasks computed and stored the same key.
C2_CacheTrue ==
    \A k \in DOMAIN fib_cache : k <= LastExact => IsFib(fib_cache[k], k)

\* A task holds the lock to store a key that a racing task has stored.
C2_Witness ==
    \E t \in DOMAIN tasks :
        /\ tasks[t].pc = "store" /\ cache_mutex = t
        /\ tasks[t].n \in DOMAIN fib_cache

\* C3: for n < 0, solve(n) fails with InvalidInput (the throw of line 16)
\* before touching anything: a call with n < 0 is either not yet started
\* or has thrown, never owns the mutex and has no sub-task, and its one step
\* changes neither the cache nor the mutex nor the set of tasks.
C3_NegativeThrows ==
    /\ [](\A t \in DOMAIN tasks :
            tasks[t].n < 0 =>
                /\ tasks[t].pc \in {"entry", "throw16"}
                /\ cache_mutex # t
                /\ ~Exists(Child(t, 1)) /\ ~Exists(Child(t, 2)))
    /\ [][\A t \in DOMAIN tasks :
            tasks[t].n < 0 /\ tasks'[t] # tasks[t] =>
                /\ tasks'[t].pc = "throw16"
                /\ fib_cache' = fib_cache
                /\ cache_mutex' = cache_mutex
                /\ DOMAIN tasks' = DOMAIN tasks]_vars

\* A call with n < 0 has thrown while another task holds the mutex.
C3_Witness ==
    \E t \in DOMAIN tasks :
        tasks[t].n < 0 /\ tasks[t].pc = "throw16" /\ cache_mutex # NoTask

\* The entries the driver has collected so far, for the indices up to m:
\* -1 where the task threw, F(k) elsewhere.
ResultsRight(m) ==
    \A k \in 0..(Len(results) - 1) :
        IF batch[k] < 0 THEN results[k + 1] = LLMinusOne
        ELSE k <= m => IsFib(results[k + 1], k)

\* C4, as stated: when run(maxN, hint) completes, the results are maxN + 1
\* entries and entry k is F(k).
C4_EveryMaxN ==
    dpc = "done" => Len(results) = maxN + 1 /\ ResultsRight(maxN)

\* C4, as amended: for maxN in 0..92, when run(maxN, hint) completes, the
\* results are maxN + 1 entries and entry k is F(k), whatever order the
\* tasks finished in.
C4_Results ==
    dpc = "done" /\ maxN <= LastExact =>
        Len(results) = maxN + 1 /\ ResultsRight(maxN)

\* A run under free scheduling has completed.
C4_Witness ==
    dpc = "done" /\ sched = "free" /\ maxN = MaxN /\ Len(results) = MaxN + 1

\* C5, as stated: a failed top-level task leaves -1 at its position, every
\* other position holds its Fibonacci number, only the tasks given a
\* negative index fail, and the batch is not aborted.
C5_EveryIndex ==
    /\ ResultsRight(maxN)
    /\ \A t \in DOMAIN tasks : tasks[t].pc \in Thrown => tasks[t].n < 0
    /\ dpc = "done" => Len(results) = maxN + 1
    /\ dpc # "aborted"

\* C5, as amended: a failed top-level task leaves -1 at its position, every
\* other position k <= 92 holds F(k), only the tasks given a negative index
\* fail, and no failed task aborts the batch (only the trap of an
\* overflowing sum, at an index of 93 or more, ends the process).
C5_Sentinel ==
    /\ ResultsRight(LastExact)
    /\ \A t \in DOMAIN tasks : tasks[t].pc \in Thrown => tasks[t].n < 0
    /\ dpc = "done" => Len(results) = maxN + 1
    /\ dpc = "aborted" => \E t \in DOMAIN tasks : tasks[t].pc = "trapped"

\* A batch with a negative index before its last position has completed.
C5_Witness ==
    /\ dpc = "done" /\ sched = "free" /\ maxN >= 2
    /\ \E k \in 0..(maxN - 1) : batch[k] < 0 /\ results[k + 1] = LLMinusOne

\* C6: a task in the simulated-work delay, spawning its sub-tasks or waiting
\* for their results does not own the mutex.
C6_NoLockWhileWaiting ==
    \A t \in DOMAIN tasks :
        tasks[t].pc \in {"sleep", "spawn", "await", "lock2"}
            => cache_mutex # t

\* A task is blocked on a sub-task that has not finished while another task
\* owns the mutex.
C6_Witness ==
    \E t \in DOMAIN tasks :
        /\ tasks[t].pc = "await" /\ ~Finished(Child(t, 1))
        /\ cache_mutex # NoTask

\* The batch has completed: the driver has reported, every task has left
\* fibonacci_cpp and the mutex is free.
Completed ==
    /\ dpc = "done"
    /\ Len(results) = maxN + 1
    /\ \A t \in DOMAIN tasks : Finished(t)
    /\ cache_mutex = NoTask

HitStep(t, m) ==
    /\ tasks'[t].pc \in {"lock", "check", "return24"}
    /\ tasks'[t].pc = "return24" =>
          /\ tasks'[t].val = fib_cache[tasks[t].n]
          /\ tasks[t].n <= m => IsFib(tasks'[t].val, tasks[t].n)
    /\ fib_cache' = fib_cache
    /\ DOMAIN tasks' = DOMAIN tasks

\* A call that has not read the cache yet.
BeforeCheck(t) == tasks[t].pc \in {"entry", "lock", "check"}

\* C8, as stated: once the cache holds n, a call solve(n) returns F(n) from
\* the cache.
C8_EveryIndex ==
    [][\A t \in DOMAIN tasks :
          (/\ tasks[t].n \in DOMAIN fib_cache
           /\ BeforeCheck(t)
           /\ tasks'[t] # tasks[t]) => HitStep(t, MaxRef)]_vars

\* C8, as amended: once the cache holds n, every call solve(n) that has not
\* read the cache yet returns the cached value from line 24, spawns no
\* sub-task and leaves the cache unchanged; for n <= 92 that value is F(n).
C8_WarmHit ==
    [][\A t \in DOMAIN tasks :
          (/\ tasks[t].n \in DOMAIN fib_cache
           /\ BeforeCheck(t)
           /\ tasks'[t] # tasks[t]) => HitStep(t, LastExact)]_vars

\* Two calls for the same n have returned from the cache (line 24).
C8_Witness ==
    \E t, u \in DOMAIN tasks :
        /\ t # u /\ tasks[t].n = tasks[u].n
        /\ tasks[t].pc = "return24" /\ tasks[u].pc = "return24"
        /\ tasks[t].val = fib_cache[tasks[t].n]

\* C9: a task that reads the cache (lines 23-24, at "check") or writes it
\* (line 46, at "store") owns the mutex, so at most one task is at such a
\* position; and the cache changes only by a step of the task that owns the
\* mutex.
C9_CacheUnderLock ==
    /\ [](\A t \in DOMAIN tasks :
            tasks[t].pc \in {"check", "store"} => cache_mutex = t)
    /\ [][fib_cache' # fib_cache =>
            /\ cache_mutex # NoTask
            /\ tasks[cache_mutex].pc = "store"
            /\ tasks'[cache_mutex].pc = "return47"]_vars

\* A task owns the mutex for its store while another waits to check.
C9_Witness ==
    \E t, u \in DOMAIN tasks :
        /\ tasks[t].pc = "store" /\ cache_mutex = t
        /\ tasks[u].pc = "lock"

\* Two calls for the same n have both missed the cache and both computed
\* their result.
Racing(t, u) ==
    /\ t # u /\ tasks[t].n = tasks[u].n
    /\ tasks[t].pc \in {"lock2", "store", "return47"}
    /\ tasks[u].pc \in {"lock2", "store", "return47"}

\* C10, as stated: two racing calls for the same n store and return the
\* same value, F(n).
C10_EveryIndex ==
    \A t, u \in DOMAIN tasks :
        Racing(t, u) =>
            tasks[t].val = tasks[u].val /\ IsFib(tasks[t].val, tasks[t].n)

\* C10, as amended: two racing calls for the same n store and return the
\* same value, and for n <= 92 it is F(n).
C10_SameValue ==
    \A t, u \in DOMAIN tasks :
        Racing(t, u) =>
            /\ tasks[t].val = tasks[u].val
            /\ tasks[t].n <= LastExact => IsFib(tasks[t].val, tasks[t].n)

\* The solver is not single-flight: two calls for the same n have both
\* missed, both computed and both stored.
C10_Witness ==
    \E t, u \in DOMAIN tasks :
        /\ t # u /\ tasks[t].n = tasks[u].n
        /\ tasks[t].pc = "return47" /\ tasks[u].pc = "return47"
        /\ tasks[t].n \in DOMAIN fib_cache

\* The top-level tasks that exist.
TopTasks == {t \in DOMAIN tasks : t[2] = <<>>}

C12_BaseBypass ==
    /\ [](\A t \in DOMAIN tasks :
            tasks[t].n \in {0, 1} =>
                /\ tasks[t].pc \in {"entry", "return18", "return19"}
                /\ tasks[t].pc = "return18" =>
                      tasks[t].n = 0 /\ tasks[t].val = LL(0)
                /\ tasks[t].pc = "return19" =>
                      tasks[t].n = 1 /\ tasks[t].val = LL(1)
                /\ cache_mutex # t
                /\ ~Exists(Child(t, 1)) /\ ~Exists(Child(t, 2)))
    /\ [](\A k \in DOMAIN fib_cache : k >= 2)
    /\ [][\A t \in DOMAIN tasks \cap DOMAIN tasks' :
            tasks[t].n \in {0, 1} /\ tasks'[t] # tasks[t] =>
                /\ tasks[t].pc = "entry"
                /\ fib_cache' = fib_cache
                /\ cache_mutex' = cache_mutex
                /\ DOMAIN tasks' = DOMAIN tasks]_vars

\* Calls solve(0) and solve(1) have returned while another task owns the
\* mutex and the cache holds an entry.
C12_Witness ==
    /\ \E t \in DOMAIN tasks : tasks[t].pc = "return18"
    /\ \E t \in DOMAIN tasks : tasks[t].pc = "return19"
    /\ cache_mutex # NoTask
    /\ fib_cache # EmptyCache

\* The sub-tasks of t that exist.
Children(t) ==
    {u \in DOMAIN tasks :
        /\ u[1] = t[1] /\ Len(u[2]) = Len(t[2]) + 1
        /\ SubSeq(u[2], 1, Len(t[2])) = t[2]}

\* The long long a with one more limb, sign-extended.
Wide(a) == a \o <<IF LLNegative(a) THEN Base - 1 ELSE 0>>

\* The long long v is the sum of the long longs a and b: the sum taken
\* with one more limb, where it cannot overflow, is v.
IsSum(v, a, b) == AddLimbs(Wide(a), Wide(b), 1, 0) = Wide(v)

\* What C13 says of a call for n >= 2 that missed the cache, with the sum
\* required of the calls for n <= m: from the launch of its sub-tasks to
\* its store it has exactly two sub-tasks, for n - 1 and n - 2; it is past
\* line 42 only when both have finished, with their sum as its result; and
\* when it has returned from line 47, key n is in the cache.
MissInOrder(t, m) ==
    LET pc == tasks[t].pc
        c1 == Child(t, 1)
        c2 == Child(t, 2)
    IN  /\ pc \in {"await", "trapped", "lock2", "store"} =>
              /\ Children(t) = {c1, c2}
              /\ tasks[c1].n = tasks[t].n - 1
              /\ tasks[c2].n = tasks[t].n - 2
        /\ pc \notin {"await", "trapped", "lock2", "store"} => Children(t) = {}
        /\ pc \in {"lock2", "store"} =>
              /\ Finished(c1) /\ Finished(c2)
              /\ tasks[t].n <= m => IsSum(tasks[t].val, tasks[c1].val, tasks[c2].val)
        /\ pc = "return47" =>
              /\ tasks[t].n \in DOMAIN fib_cache
              /\ fib_cache[tasks[t].n] = tasks[t].val

\* A step that changes the entry of key k is the store of a call for k that
\* holds the sum, which is what it stores and what it returns.
StoreStep(k) ==
    \E t \in DOMAIN tasks :
        /\ tasks[t].n = k /\ tasks[t].pc = "store"
        /\ Finished(Child(t, 1)) /\ Finished(Child(t, 2))
        /\ fib_cache'[k] = tasks[t].val
        /\ tasks'[t].pc = "return47" /\ tasks'[t].val = tasks[t].val

\* C13, as stated: on a miss for n >= 2, solve(n) spawns exactly two
\* sub-computations, for n - 1 and n - 2, stores key n only after both have
\* completed, stores and returns the sum of their results, and stores
\* before it returns.
C13_EverySum ==
    /\ [](\A t \in DOMAIN tasks : MissInOrder(t, MaxRef))
    /\ [][\A k \in DOMAIN fib_cache' :
            (k \notin DOMAIN fib_cache \/ fib_cache'[k] # fib_cache[k])
                => StoreStep(k)]_vars

\* C13, as amended: the same, with the stored and returned value the sum
\* of the two results for n <= 92; for n >= 93 the sum overflows and the
\* value is what the overflowing addition of line 42 left.
C13_MissStoresSum ==
    /\ [](\A t \in DOMAIN tasks : MissInOrder(t, LastExact))
    /\ [][\A k \in DOMAIN fib_cache' :
            (k \notin DOMAIN fib_cache \/ fib_cache'[k] # fib_cache[k])
                => StoreStep(k)]_vars

\* A call for n >= 3 holds the mutex for its store; of its two sub-tasks
\* one computed and stored its result and the other returned at once.
C13_Witness ==
    \E t \in DOMAIN tasks :
        /\ tasks[t].pc = "store" /\ tasks[t].n >= 3 /\ cache_mutex = t
        /\ tasks[Child(t, 1)].pc = "return47"
        /\ tasks[Child(t, 2)].pc = "return19"

\* C14: the cache only grows.  Across every step, a key that is present
\* stays present with the value it has: nothing is removed, and a racing
\* store of a key that is present writes the value that is there.
C14_CacheOnlyGrows ==
    [][\A k \in DOMAIN fib_cache :
          k \in DOMAIN fib_cache' /\ fib_cache'[k] = fib_cache[k]]_vars

\* Two racing calls for an n above 92 have both stored key n, the second
\* over the entry of the first, next to the entries the cache had.
C14_Witness ==
    \E t, u \in DOMAIN tasks :
        /\ t # u /\ tasks[t].n = tasks[u].n /\ tasks[t].n > LastExact
        /\ tasks[t].pc = "return47" /\ tasks[u].pc = "return47"
        /\ fib_cache[tasks[t].n] = tasks[t].val
        /\ LastExact \in DOMAIN fib_cache

\* What the future of index k yields: the task's value, -1 for line 70.
Yield(k) ==
    IF tasks[Top(k)].pc \in Thrown THEN LLMinusOne ELSE tasks[Top(k)].val

\* C15: the driver launches all maxN + 1 top-level tasks before it awaits
\* any of them (while it launches, no result has been taken; once it awaits,
\* the tasks of 0..maxN all exist), and it awaits them in index order:
\* position k of the results holds what task k yielded, and each step that
\* fills a position fills the next one, from the task of that index, when
\* that task has finished, whichever other tasks have finished by then.
C15_LaunchThenInOrder ==
    /\ [](/\ dpc = "launch" => results = <<>>
          /\ (dpc \in {"collect", "report", "done"} \/ results # <<>>) =>
                /\ i = maxN + 1
                /\ \A k \in 0..maxN : Exists(Top(k))
          /\ \A k \in 0..(Len(results) - 1) :
                Finished(Top(k)) /\ results[k + 1] = Yield(k))
    /\ [][results' # results =>
            /\ dpc = "collect"
            /\ FutureReady(Len(results))
            /\ results' = Append(results, Yield(Len(results)))]_vars

\* The driver has filled the positions before j and waits for task j, which
\* has not finished, while a task of a later index has finished.
C15_Witness ==
    /\ dpc = "collect" /\ Len(results) >= 1 /\ Len(results) < maxN
    /\ ~Finished(Top(Len(results)))
    /\ \E k \in (Len(results) + 1)..maxN : Finished(Top(k))

\* C16: the lock is released on every exit path of the solver.  The owner
\* of the mutex is a task inside the cache check (lines 22-30) or the cache
\* store (lines 45-47), so the mutex is free whenever no task is there; a
\* task that has left the function, by any return or by an exception, does
\* not own it; and it is free when the batch has completed.
C16_LockReleased ==
    /\ cache_mutex # NoTask =>
          /\ Exists(cache_mutex)
          /\ tasks[cache_mutex].pc \in {"check", "store"}
    /\ (\A t \in DOMAIN tasks : tasks[t].pc \notin {"check", "store"})
          => cache_mutex = NoTask
    /\ \A t \in DOMAIN tasks : Finished(t) => cache_mutex # t
    /\ dpc = "done" => cache_mutex = NoTask

\* A call has returned from the cache (line 24) and the mutex is free, with
\* another task waiting to lock it and no task inside a check or a store.
C16_Witness ==
    /\ \E t \in DOMAIN tasks : tasks[t].pc = "return24"
    /\ \E t \in DOMAIN tasks : tasks[t].pc \in {"lock", "lock2"}
    /\ \A t \in DOMAIN tasks : tasks[t].pc \notin {"check", "store"}
    /\ cache_mutex = NoTask

\* C17: from the empty cache, the keys of the cache are downward closed
\* above the base cases: with key n, key n - 1 is present if n - 1 >= 2 and
\* key n - 2 is present if n - 2 >= 2.
C17_DownwardClosed ==
    \A n \in DOMAIN fib_cache :
        /\ n - 1 >= 2 => (n - 1) \in DOMAIN fib_cache
        /\ n - 2 >= 2 => (n - 2) \in DOMAIN fib_cache

\* Key MaxN has been stored, with the keys below it, while a call for a
\* smaller n is still on its way to store its own result.
C17_Witness ==
    /\ DOMAIN fib_cache = 2..MaxN
    /\ \E t \in DOMAIN tasks :
          tasks[t].n < MaxN /\ tasks[t].pc \in {"await", "lock2", "store"}

\* C18: from the empty cache, no key below 2 or above maxN is ever stored,
\* and when run(maxN, hint) has completed the keys of the cache are exactly
\* 2..maxN (none when maxN < 2).
C18_KeysOfRun ==
    /\ DOMAIN fib_cache \subseteq 2..maxN
    /\ dpc = "done" => DOMAIN fib_cache = 2..maxN

\* A run with maxN beyond 92 has completed (in a build that wraps), and
\* the keys of the cache are 2..maxN.
C18_Witness ==
    /\ dpc = "done" /\ maxN > LastExact
    /\ DOMAIN fib_cache = 2..maxN

====
